---- MODULE Spec2Model ----
(***************************************************************************)
(* Model of nonebot/adapters/satori/models.py: the pydantic (v1 API:       *)
(* Extra, validator, root_validator) models of the Satori protocol and the *)
(* decode of a raw envelope through the PayloadType union.                 *)
(*                                                                         *)
(* Raw (JSON-like) Python values are tagged records:                       *)
(*   [t |-> "none"], [t |-> "bool", b], [t |-> "int", i],                  *)
(*   [t |-> "float", f] (f in tenths), [t |-> "str", s] (s a sequence of   *)
(*   one-character strings), [t |-> "list", l], [t |-> "map", m] (m a      *)
(*   function from keys to values), [t |-> "datetime", us] (microseconds   *)
(*   since the epoch), [t |-> "element", type, text] and, after            *)
(*   validation, [t |-> "enum", cls, n] (the member of an enumeration) and *)
(*   [t |-> "model", cls, v] (an instance: v its attributes).  Each kind   *)
(*   has its own field names, so values of different kinds compare         *)
(*   without their contents being compared.                                *)
(***************************************************************************)
EXTENDS Integers, Sequences, FiniteSets, TLC

VARIABLES target, raw, result, pc

vars == <<target, raw, result, pc>>

-----------------------------------------------------------------------------
(* Bounds of the enumerated inputs.                                        *)

MaxMillis == 3
MaxRawOp == 6
MaxLogins == 2

-----------------------------------------------------------------------------
(* Python values.                                                          *)

None == [t |-> "none"]
BoolV(b) == [t |-> "bool", b |-> b]
IntV(i) == [t |-> "int", i |-> i]
FloatV(tenths) == [t |-> "float", f |-> tenths]
StrV(s) == [t |-> "str", s |-> s]
ListV(l) == [t |-> "list", l |-> l]
MapV(m) == [t |-> "map", m |-> m]
DatetimeV(us) == [t |-> "datetime", us |-> us]

EmptyMap == MapV(<<>>)

(* Outcome of a validation: the value or the error raised, and the         *)
(* diagnostics emitted through log while computing it, in order.           *)
Ok(v) == [ok |-> TRUE, val |-> v, logs |-> <<>>]
Err(e) == [ok |-> FALSE, val |-> [t |-> "error", e |-> e], logs |-> <<>>]
WithLogs(r, emitted) == [r EXCEPT !.logs = emitted \o @]

-----------------------------------------------------------------------------
(* Python's int(v).                                                        *)

Digits == <<"0", "1", "2", "3", "4", "5", "6", "7", "8", "9">>
IsDigit(c) == \E d \in 1..10 : Digits[d] = c
DigitVal(c) == (CHOOSE d \in 1..10 : Digits[d] = c) - 1

RECURSIVE DigitsVal(_)
DigitsVal(s) ==
  IF s = <<>> THEN 0
  ELSE DigitsVal(SubSeq(s, 1, Len(s) - 1)) * 10 + DigitVal(s[Len(s)])

RECURSIVE StripLeft(_)
StripLeft(s) ==
  IF s # <<>> /\ s[1] = " " THEN StripLeft(Tail(s)) ELSE s

RECURSIVE StripRight(_)
StripRight(s) ==
  IF s # <<>> /\ s[Len(s)] = " " THEN StripRight(SubSeq(s, 1, Len(s) - 1)) ELSE s

Strip(s) == StripRight(StripLeft(s))

(* The digits of an integer literal: digits, single underscores allowed    *)
(* between them.                                                           *)
IsIntLiteral(ds) ==
  /\ ds # <<>>
  /\ IsDigit(ds[1]) /\ IsDigit(ds[Len(ds)])
  /\ \A i \in 1..Len(ds) : IsDigit(ds[i]) \/ ds[i] = "_"
  /\ \A i \in 1..(Len(ds) - 1) : ~(ds[i] = "_" /\ ds[i + 1] = "_")

(* int(s) of a string: surrounding whitespace, an optional sign, an        *)
(* integer literal; anything else raises ValueError.                       *)
IntOfStr(s) ==
  LET w == Strip(s)
      signed == w # <<>> /\ w[1] \in {"+", "-"}
      ds == IF signed THEN Tail(w) ELSE w
      n == DigitsVal(SelectSeq(ds, IsDigit))
  IN  IF IsIntLiteral(ds)
      THEN Ok(IntV(IF signed /\ w[1] = "-" THEN 0 - n ELSE n))
      ELSE Err("ValueError")

(* float -> int truncates toward zero.                                     *)
Trunc10(tenths) == IF tenths >= 0 THEN tenths \div 10 ELSE 0 - ((0 - tenths) \div 10)

PyInt(v) ==
  CASE v.t = "int" -> Ok(v)
    [] v.t = "bool" -> Ok(IntV(IF v.b THEN 1 ELSE 0))
    [] v.t = "float" -> Ok(IntV(Trunc10(v.f)))
    [] v.t = "str" -> IntOfStr(v.s)
    [] OTHER -> Err("TypeError")

(* timestamp / 1000 (true division) and datetime.fromtimestamp of it: the  *)
(* point in time, to the microsecond.                                      *)
TrueDiv(n, d) == [num |-> n, den |-> d]
fromtimestamp(q) == DatetimeV((q.num * 1000000) \div q.den)

-----------------------------------------------------------------------------
(* The four timestamp pre-validators.                                      *)

parse_joined_at(v) ==
  IF v.t = "none" THEN Ok(None)
  ELSE IF v.t = "datetime" THEN Ok(v)
  ELSE LET timestamp == PyInt(v)
       IN  IF ~timestamp.ok
           THEN IF timestamp.val.e = "ValueError"
                THEN Err("ValueError: invalid timestamp")
                ELSE timestamp
           ELSE Ok(fromtimestamp(TrueDiv(timestamp.val.i, 1000)))

parse_created_at(v) ==
  IF v.t = "none" THEN Ok(None)
  ELSE IF v.t = "datetime" THEN Ok(v)
  ELSE LET timestamp == PyInt(v)
       IN  IF ~timestamp.ok
           THEN IF timestamp.val.e = "ValueError"
                THEN Err("ValueError: invalid timestamp")
                ELSE timestamp
           ELSE Ok(fromtimestamp(TrueDiv(timestamp.val.i, 1000)))

(* parse_updated_at, had it taken the integer for seconds.                 *)
parse_updated_at_Seconds(v) ==
  IF v.t = "none" THEN Ok(None)
  ELSE IF v.t = "datetime" THEN Ok(v)
  ELSE LET timestamp == PyInt(v)
       IN  IF ~timestamp.ok
           THEN IF timestamp.val.e = "ValueError"
                THEN Err("ValueError: invalid timestamp")
                ELSE timestamp
           ELSE Ok(fromtimestamp(TrueDiv(timestamp.val.i, 1)))

parse_updated_at(v) ==
  IF v.t = "none" THEN Ok(None)
  ELSE IF v.t = "datetime" THEN Ok(v)
  ELSE LET timestamp == PyInt(v)
       IN  IF ~timestamp.ok
           THEN IF timestamp.val.e = "ValueError"
                THEN Err("ValueError: invalid timestamp")
                ELSE timestamp
           ELSE Ok(fromtimestamp(TrueDiv(timestamp.val.i, 1000)))

parse_timestamp(v) ==
  IF v.t = "none" THEN Ok(None)
  ELSE IF v.t = "datetime" THEN Ok(v)
  ELSE LET timestamp == PyInt(v)
       IN  IF ~timestamp.ok
           THEN IF timestamp.val.e = "ValueError"
                THEN Err("ValueError: invalid timestamp")
                ELSE timestamp
           ELSE Ok(fromtimestamp(TrueDiv(timestamp.val.i, 1000)))

-----------------------------------------------------------------------------
(* Python's str(v) for numbers, str.lower() and iteration.                *)

RECURSIVE StrOfNat(_)
StrOfNat(n) ==
  IF n < 10 THEN <<Digits[n + 1]>>
  ELSE StrOfNat(n \div 10) \o <<Digits[(n % 10) + 1]>>

StrOfInt(i) == IF i < 0 THEN <<"-">> \o StrOfNat(0 - i) ELSE StrOfNat(i)

StrOfFloat(tenths) ==
  LET a == IF tenths < 0 THEN 0 - tenths ELSE tenths
  IN  (IF tenths < 0 THEN <<"-">> ELSE <<>>)
        \o StrOfNat(a \div 10) \o <<".">> \o StrOfNat(a % 10)

Upper == <<"A", "B", "C", "D", "E", "F", "G", "H", "I", "J", "K", "L", "M",
           "N", "O", "P", "Q", "R", "S", "T", "U", "V", "W", "X", "Y", "Z">>
Lower == <<"a", "b", "c", "d", "e", "f", "g", "h", "i", "j", "k", "l", "m",
           "n", "o", "p", "q", "r", "s", "t", "u", "v", "w", "x", "y", "z">>
LowerChar(c) ==
  IF \E i \in 1..26 : Upper[i] = c
  THEN Lower[CHOOSE i \in 1..26 : Upper[i] = c]
  ELSE c
LowerStr(s) == [i \in 1..Len(s) |-> LowerChar(s[i])]

(* The key of a mapping, as the string its characters spell.               *)
RECURSIVE Join(_)
Join(s) == IF s = <<>> THEN "" ELSE s[1] \o Join(Tail(s))

(* The elements iterating over v yields, or TypeError when v is not        *)
(* iterable.  Iterating over a mapping yields its keys, which this model   *)
(* does not order, so a mapping is handled by its callers.                 *)
Iter(v) ==
  CASE v.t = "list" -> Ok(ListV(v.l))
    [] v.t = "str" -> Ok(ListV([i \in 1..Len(v.s) |-> StrV(<<v.s[i]>>)]))
    [] OTHER -> Err("TypeError")

-----------------------------------------------------------------------------
(* pydantic's validators of the field types models.py declares.            *)

TAny == [k |-> "any"]
TStr == [k |-> "str"]
TInt == [k |-> "int"]
TBool == [k |-> "bool"]
TDatetime == [k |-> "datetime"]
TElement == [k |-> "element"]
TDictStrAny == [k |-> "dict"]
TEnum(name, members) == [k |-> "enum", cls |-> name, members |-> members]
TLiteral(name, member) == [k |-> "literal", cls |-> name, value |-> member]
TOptional(type) == [k |-> "optional", of |-> type]
TList(type) == [k |-> "list", of |-> type]
TModel(name) == [k |-> "model", cls |-> name]

EnumV(name, member) == [t |-> "enum", cls |-> name, n |-> member]

Range(f) == {f[x] : x \in DOMAIN f}

str_validator(v) ==
  CASE v.t = "str" -> Ok(v)
    [] v.t = "int" -> Ok(StrV(StrOfInt(v.i)))
    [] v.t = "float" -> Ok(StrV(StrOfFloat(v.f)))
    [] v.t = "bool" -> Ok(StrV(IF v.b THEN <<"T", "r", "u", "e">>
                                      ELSE <<"F", "a", "l", "s", "e">>))
    [] OTHER -> Err("StrError")

(* The key of a pair: a string; under str_keys (a Dict[str, Any] field,    *)
(* whose keys go through str_validator) also what str_validator makes a    *)
(* string of.  Model.validate passes the mapping as keyword arguments,     *)
(* which raises TypeError for any other key.                               *)
KeyOf(k, str_keys) ==
  IF k.t = "str" THEN Ok(k)
  ELSE IF str_keys /\ k.t \in {"int", "float", "bool"} THEN str_validator(k)
  ELSE Err("TypeError")

AddPair(rest, pair, str_keys) ==
  IF ~rest.ok THEN rest
  ELSE IF ~pair.ok THEN pair
  ELSE IF Len(pair.val.l) # 2 THEN Err("ValueError")
  ELSE IF ~KeyOf(pair.val.l[1], str_keys).ok THEN Err("TypeError")
  ELSE Ok(MapV([k \in DOMAIN rest.val.m
                        \cup {Join(KeyOf(pair.val.l[1], str_keys).val.s)} |->
                  IF k = Join(KeyOf(pair.val.l[1], str_keys).val.s)
                  THEN pair.val.l[2]
                  ELSE rest.val.m[k]]))

(* dict(v) of an iterable of 2-element iterables: the mapping of its       *)
(* pairs, later pairs winning; TypeError / ValueError otherwise.           *)
RECURSIVE DictOfPairs(_, _)
DictOfPairs(items, str_keys) ==
  IF items = <<>> THEN Ok(EmptyMap)
  ELSE AddPair(DictOfPairs(SubSeq(items, 1, Len(items) - 1), str_keys),
               Iter(items[Len(items)]), str_keys)

PairsOf(items, str_keys) ==
  IF items.ok THEN DictOfPairs(items.val.l, str_keys) ELSE items

(* A mapping as it is, anything else through dict().                       *)
DictOf(v, str_keys) == IF v.t = "map" THEN Ok(v) ELSE PairsOf(Iter(v), str_keys)

int_validator(v) ==
  IF v.t = "int" THEN Ok(v)
  ELSE LET i == PyInt(v) IN IF i.ok THEN i ELSE Err("IntegerError")

BOOL_TRUE == {<<"1">>, <<"o", "n">>, <<"t">>, <<"t", "r", "u", "e">>, <<"y">>,
              <<"y", "e", "s">>}
BOOL_FALSE == {<<"0">>, <<"o", "f", "f">>, <<"f">>, <<"f", "a", "l", "s", "e">>,
               <<"n">>, <<"n", "o">>}

bool_validator(v) ==
  CASE v.t = "bool" -> Ok(v)
    [] v.t = "int" /\ v.i \in {0, 1} -> Ok(BoolV(v.i = 1))
    [] v.t = "float" /\ v.f \in {0, 10} -> Ok(BoolV(v.f = 10))
    [] v.t = "str" /\ LowerStr(v.s) \in BOOL_TRUE -> Ok(BoolV(TRUE))
    [] v.t = "str" /\ LowerStr(v.s) \in BOOL_FALSE -> Ok(BoolV(FALSE))
    [] OTHER -> Err("BoolError")

(* An IntEnum field: int_validator, then the member whose value it is.     *)
enum_member_validator(type, v) ==
  LET i == int_validator(v)
  IN  IF ~i.ok THEN i
      ELSE IF i.val.i \in Range(type.members) THEN Ok(EnumV(type.cls, i.val.i))
      ELSE Err("EnumMemberError")

(* A Literal[member] field: v is looked up among the permitted members by  *)
(* hash and equality, so 0, 0.0 and False all find the member valued 0, a  *)
(* string finds none and an unhashable value raises TypeError.             *)
literal_validator(type, v) ==
  LET found ==
        \/ v.t = "int" /\ v.i = type.value
        \/ v.t = "bool" /\ (IF v.b THEN 1 ELSE 0) = type.value
        \/ v.t = "float" /\ v.f = type.value * 10
        \/ v.t = "enum" /\ v.n = type.value
  IN  IF found THEN Ok(EnumV(type.cls, type.value)) ELSE Err("WrongConstantError")

(* Every datetime field of models.py has a pre validator, which hands on a *)
(* datetime (or None, or fails).                                           *)
parse_datetime(v) ==
  IF v.t = "datetime" THEN Ok(v) ELSE Err("DateTimeError")

-----------------------------------------------------------------------------
(* The collaborators imported from .utils: Element, log and parse.         *)

ElementV(type, text) == [t |-> "element", type |-> type, text |-> text]

(* parse(text): the content elements of a markup string; plain text is one *)
(* text element.                                                           *)
parse(v) == ListV(IF v.s = <<>> THEN <<>> ELSE <<ElementV("text", v.s)>>)

(* log(level, message): one diagnostic handed to the sink.                 *)
log(level, message) == <<[level |-> level, message |-> message]>>

element_validator(v) ==
  IF v.t = "element" THEN Ok(v) ELSE Err("ElementError")

-----------------------------------------------------------------------------
(* The declarations of models.py.  A model is its class name, its extra    *)
(* policy, its pre root validator and its fields in declaration order; a   *)
(* field is its name, type, whether it is required, its default and its    *)
(* pre validator.                                                          *)

Req(name, type) ==
  [name |-> name, type |-> type, required |-> TRUE, default |-> None, pre |-> ""]
Opt(name, type, default) ==
  [name |-> name, type |-> type, required |-> FALSE, default |-> default, pre |-> ""]
Pre(field, validator) == [field EXCEPT !.pre = validator]

ChannelType == [TEXT |-> 0, VOICE |-> 1, CATEGORY |-> 2, DIRECT |-> 3]

(* Channel, had it been declared without extra=Extra.allow.               *)
Channel_IgnoreExtra ==
  [cls |-> "Channel", extra |-> "ignore", root_pre |-> "",
   fields |-> <<Req("id", TStr),
                Opt("name", TOptional(TStr), None),
                Req("type", TEnum("ChannelType", ChannelType)),
                Opt("parent_id", TOptional(TStr), None)>>]

Channel ==
  [cls |-> "Channel", extra |-> "allow", root_pre |-> "",
   fields |-> <<Req("id", TStr),
                Opt("name", TOptional(TStr), None),
                Req("type", TEnum("ChannelType", ChannelType)),
                Opt("parent_id", TOptional(TStr), None)>>]

Guild ==
  [cls |-> "Guild", extra |-> "allow", root_pre |-> "",
   fields |-> <<Req("id", TStr),
                Req("name", TStr),
                Opt("avatar", TOptional(TStr), None)>>]

User ==
  [cls |-> "User", extra |-> "allow", root_pre |-> "",
   fields |-> <<Req("id", TStr),
                Opt("name", TOptional(TStr), None),
                Opt("avatar", TOptional(TStr), None),
                Opt("is_bot", TOptional(TBool), None)>>]

InnerMember ==
  [cls |-> "InnerMember", extra |-> "allow", root_pre |-> "",
   fields |-> <<Opt("user", TOptional(TModel("User")), None),
                Opt("name", TOptional(TStr), None),
                Opt("avatar", TOptional(TStr), None),
                Pre(Opt("joined_at", TOptional(TDatetime), None), "parse_joined_at")>>]

Role ==
  [cls |-> "Role", extra |-> "allow", root_pre |-> "",
   fields |-> <<Req("id", TStr),
                Req("name", TStr)>>]

LoginStatus ==
  [OFFLINE |-> 0, ONLINE |-> 1, CONNECT |-> 2, DISCONNECT |-> 3, RECONNECT |-> 4]

Login ==
  [cls |-> "Login", extra |-> "allow", root_pre |-> "",
   fields |-> <<Opt("user", TOptional(TModel("User")), None),
                Opt("self_id", TOptional(TStr), None),
                Opt("platform", TOptional(TStr), None),
                Req("status", TEnum("LoginStatus", LoginStatus))>>]

Opcode == [EVENT |-> 0, PING |-> 1, PONG |-> 2, IDENTIFY |-> 3, READY |-> 4]

(* Payload, had op been declared a plain int.                              *)
Payload_IntOp ==
  [cls |-> "Payload", extra |-> "ignore", root_pre |-> "",
   fields |-> <<Req("op", TInt),
                Opt("body", TOptional(TDictStrAny), None)>>]

Payload ==
  [cls |-> "Payload", extra |-> "ignore", root_pre |-> "",
   fields |-> <<Req("op", TEnum("Opcode", Opcode)),
                Opt("body", TOptional(TDictStrAny), None)>>]

Identify ==
  [cls |-> "Identify", extra |-> "ignore", root_pre |-> "",
   fields |-> <<Opt("token", TOptional(TStr), None),
                Opt("sequence", TOptional(TInt), None)>>]

(* Ready, had logins defaulted to the empty list.                          *)
Ready_DefaultLogins ==
  [cls |-> "Ready", extra |-> "ignore", root_pre |-> "",
   fields |-> <<Opt("logins", TList(TModel("Login")), ListV(<<>>))>>]

Ready ==
  [cls |-> "Ready", extra |-> "ignore", root_pre |-> "",
   fields |-> <<Req("logins", TList(TModel("Login")))>>]

(* IdentifyPayload, had body defaulted to an empty Identify.               *)
IdentifyPayload_DefaultBody ==
  [cls |-> "IdentifyPayload", extra |-> "ignore", root_pre |-> "",
   fields |-> <<Opt("op", TLiteral("Opcode", Opcode.IDENTIFY),
                    EnumV("Opcode", Opcode.IDENTIFY)),
                Opt("body", TModel("Identify"),
                    [t |-> "model", cls |-> "Identify",
                     v |-> [token |-> None, sequence |-> None]])>>]

IdentifyPayload ==
  [cls |-> "IdentifyPayload", extra |-> "ignore", root_pre |-> "",
   fields |-> <<Opt("op", TLiteral("Opcode", Opcode.IDENTIFY),
                    EnumV("Opcode", Opcode.IDENTIFY)),
                Req("body", TModel("Identify"))>>]

ReadyPayload ==
  [cls |-> "ReadyPayload", extra |-> "ignore", root_pre |-> "",
   fields |-> <<Opt("op", TLiteral("Opcode", Opcode.READY),
                    EnumV("Opcode", Opcode.READY)),
                Req("body", TModel("Ready"))>>]

(* PingPayload, had body been declared Any.                                *)
PingPayload_AnyBody ==
  [cls |-> "PingPayload", extra |-> "ignore", root_pre |-> "",
   fields |-> <<Opt("op", TLiteral("Opcode", Opcode.PING),
                    EnumV("Opcode", Opcode.PING)),
                Opt("body", TAny, None)>>]

PingPayload ==
  [cls |-> "PingPayload", extra |-> "ignore", root_pre |-> "",
   fields |-> <<Opt("op", TLiteral("Opcode", Opcode.PING),
                    EnumV("Opcode", Opcode.PING)),
                Opt("body", TOptional(TDictStrAny), None)>>]

PongPayload ==
  [cls |-> "PongPayload", extra |-> "ignore", root_pre |-> "",
   fields |-> <<Opt("op", TLiteral("Opcode", Opcode.PONG),
                    EnumV("Opcode", Opcode.PONG)),
                Opt("body", TOptional(TDictStrAny), None)>>]

InnerMessage ==
  [cls |-> "InnerMessage", extra |-> "allow", root_pre |-> "ensure_content",
   fields |-> <<Req("id", TStr),
                Pre(Req("content", TList(TElement)), "parse_content"),
                Opt("channel", TOptional(TModel("Channel")), None),
                Opt("guild", TOptional(TModel("Guild")), None),
                Opt("member", TOptional(TModel("InnerMember")), None),
                Opt("user", TOptional(TModel("User")), None),
                Pre(Opt("created_at", TOptional(TDatetime), None), "parse_created_at"),
                Pre(Opt("updated_at", TOptional(TDatetime), None), "parse_updated_at")>>]

(* Event, had timestamp been declared Optional with a None default.        *)
Event_OptionalTimestamp ==
  [cls |-> "Event", extra |-> "allow", root_pre |-> "",
   fields |-> <<Req("id", TInt),
                Req("type", TStr),
                Req("platform", TStr),
                Req("self_id", TStr),
                Pre(Opt("timestamp", TOptional(TDatetime), None), "parse_timestamp"),
                Opt("channel", TOptional(TModel("Channel")), None),
                Opt("guild", TOptional(TModel("Guild")), None),
                Opt("login", TOptional(TModel("Login")), None),
                Opt("member", TOptional(TModel("InnerMember")), None),
                Opt("message", TOptional(TModel("InnerMessage")), None),
                Opt("operator", TOptional(TModel("User")), None),
                Opt("role", TOptional(TModel("Role")), None),
                Opt("user", TOptional(TModel("User")), None)>>]

Event ==
  [cls |-> "Event", extra |-> "allow", root_pre |-> "",
   fields |-> <<Req("id", TInt),
                Req("type", TStr),
                Req("platform", TStr),
                Req("self_id", TStr),
                Pre(Req("timestamp", TDatetime), "parse_timestamp"),
                Opt("channel", TOptional(TModel("Channel")), None),
                Opt("guild", TOptional(TModel("Guild")), None),
                Opt("login", TOptional(TModel("Login")), None),
                Opt("member", TOptional(TModel("InnerMember")), None),
                Opt("message", TOptional(TModel("InnerMessage")), None),
                Opt("operator", TOptional(TModel("User")), None),
                Opt("role", TOptional(TModel("Role")), None),
                Opt("user", TOptional(TModel("User")), None)>>]

(* EventPayload, had body been declared Optional with a None default.     *)
EventPayload_OptionalBody ==
  [cls |-> "EventPayload", extra |-> "ignore", root_pre |-> "",
   fields |-> <<Opt("op", TLiteral("Opcode", Opcode.EVENT),
                    EnumV("Opcode", Opcode.EVENT)),
                Opt("body", TOptional(TModel("Event")), None)>>]

EventPayload ==
  [cls |-> "EventPayload", extra |-> "ignore", root_pre |-> "",
   fields |-> <<Opt("op", TLiteral("Opcode", Opcode.EVENT),
                    EnumV("Opcode", Opcode.EVENT)),
                Req("body", TModel("Event"))>>]

(* The alternatives of the union, in the order they are tried.             *)
PayloadType ==
  <<"EventPayload", "PingPayload", "PongPayload", "IdentifyPayload",
    "ReadyPayload", "Payload">>

Models ==
  <<Channel, Guild, User, InnerMember, Role, Login, Payload, Identify, Ready,
    IdentifyPayload, ReadyPayload, PingPayload, PongPayload, InnerMessage,
    Event, EventPayload>>

Schema(name) == Models[CHOOSE i \in 1..Len(Models) : Models[i].cls = name]

-----------------------------------------------------------------------------
(* The validators of InnerMessage.                                         *)

Unknown == <<"U", "n", "k", "n", "o", "w", "n">>

(* ensure_content, had it substituted the sentinel without logging.        *)
ensure_content_Silent(values) ==
  IF "content" \in DOMAIN values
  THEN [values |-> values, logs |-> <<>>]
  ELSE [values |-> [k \in DOMAIN values \cup {"content"} |->
                      IF k = "content" THEN StrV(Unknown) ELSE values[k]],
        logs |-> <<>>]

(* The pre root validator: the raw values, with the sentinel for an absent *)
(* content, and what it logged.                                            *)
ensure_content(values) ==
  IF "content" \in DOMAIN values
  THEN [values |-> values, logs |-> <<>>]
  ELSE [values |-> [k \in DOMAIN values \cup {"content"} |->
                      IF k = "content" THEN StrV(Unknown) ELSE values[k]],
        logs |-> log("WARNING",
                     "received message without content, this may be caused by a bug of Satori Server.")]

parse_content(v) ==
  IF v.t = "list" THEN Ok(v)
  ELSE IF v.t = "none" THEN Ok(None)
  ELSE IF v.t # "str" THEN Err("ValueError: content must be str")
  ELSE Ok(parse(v))

-----------------------------------------------------------------------------
(* pydantic's validation of a value against a type and of a raw map        *)
(* against a model.                                                        *)

root_validator(name, values) ==
  IF name = "ensure_content" THEN ensure_content(values)
  ELSE [values |-> values, logs |-> <<>>]

validator(name, v) ==
  CASE name = "parse_joined_at" -> parse_joined_at(v)
    [] name = "parse_content" -> parse_content(v)
    [] name = "parse_created_at" -> parse_created_at(v)
    [] name = "parse_updated_at" -> parse_updated_at(v)
    [] name = "parse_timestamp" -> parse_timestamp(v)
    [] OTHER -> Ok(v)

RECURSIVE AllLogs(_)
AllLogs(results) ==
  IF results = <<>> THEN <<>> ELSE results[1].logs \o AllLogs(Tail(results))

FieldNames(model) == {model.fields[i].name : i \in 1..Len(model.fields)}
FieldIndex(model, name) ==
  CHOOSE i \in 1..Len(model.fields) : model.fields[i].name = name

(* The validated items of a list: an error if any item failed.             *)
Collect(items) ==
  WithLogs(IF \E i \in 1..Len(items) : ~items[i].ok
           THEN Err("ValidationError")
           ELSE Ok(ListV([i \in 1..Len(items) |-> items[i].val])),
           AllLogs(items))

OrDictError(d) == IF d.ok THEN d ELSE Err("DictError")

(* The instance validate_model builds from the raw input (after the pre    *)
(* root validator) and the outcome of every field: an error if any field   *)
(* failed; otherwise the field values and the keys that are no field, kept *)
(* raw under Extra.allow and dropped under Extra.ignore.                   *)
Construct(model, input, results) ==
  IF \E i \in 1..Len(results) : ~results[i].ok
  THEN Err("ValidationError")
  ELSE Ok([t |-> "model", cls |-> model.cls,
           v |-> [k \in FieldNames(model)
                          \cup (IF model.extra = "allow" THEN DOMAIN input ELSE {}) |->
                    IF k \in FieldNames(model)
                    THEN results[FieldIndex(model, k)].val
                    ELSE input[k]]])

RECURSIVE Validate(_, _)
RECURSIVE ValidateModel(_, _)

(* ModelField.validate on a value that is present: None is accepted by an  *)
(* Optional (or Any) type only; otherwise the validator of the type.       *)
Validate(type, v) ==
  IF v.t = "none"
  THEN IF type.k \in {"optional", "any"} THEN Ok(None) ELSE Err("NoneIsNotAllowedError")
  ELSE CASE type.k = "any" -> Ok(v)
         [] type.k = "str" -> str_validator(v)
         [] type.k = "int" -> int_validator(v)
         [] type.k = "bool" -> bool_validator(v)
         [] type.k = "datetime" -> parse_datetime(v)
         [] type.k = "element" -> element_validator(v)
         [] type.k = "enum" -> enum_member_validator(type, v)
         [] type.k = "literal" -> literal_validator(type, v)
         [] type.k = "optional" -> Validate(type.of, v)
         [] type.k = "dict" -> OrDictError(DictOf(v, TRUE))
         [] type.k = "list" ->
              IF v.t # "list" THEN Err("ListError")
              ELSE Collect([i \in 1..Len(v.l) |-> Validate(type.of, v.l[i])])
         [] type.k = "model" -> ValidateModel(Schema(type.cls), v)

(* A present value goes through the type after its pre validator.          *)
AfterPre(type, pre) == IF pre.ok THEN Validate(type, pre.val) ELSE pre

(* One field of validate_model: a missing key is an error for a required   *)
(* field and the default, unvalidated, otherwise.                          *)
ValidateField(field, values) ==
  IF field.name \notin DOMAIN values
  THEN IF field.required THEN Err("MissingError") ELSE Ok(field.default)
  ELSE AfterPre(field.type, validator(field.pre, values[field.name]))

(* validate_model after the pre root validator: every field is validated,  *)
(* also after a failure.                                                   *)
ValidateFields(model, root, results) ==
  WithLogs(Construct(model, root.values, results), root.logs \o AllLogs(results))

ValidateRoot(model, root) ==
  ValidateFields(model, root,
                 [i \in 1..Len(model.fields) |-> ValidateField(model.fields[i], root.values)])

ValidateDict(model, d) ==
  IF ~d.ok THEN Err("DictError")
  ELSE ValidateRoot(model, root_validator(model.root_pre, d.val.m))

(* Model.validate: an instance passes, anything but a mapping goes through *)
(* dict().                                                                 *)
ValidateModel(model, v) ==
  IF v.t = "model" /\ v.cls = model.cls THEN Ok(v) ELSE ValidateDict(model, DictOf(v, FALSE))

(* parse_obj_as(PayloadType, obj): the alternatives of the union are tried *)
(* in order and the first that validates is the result.                    *)
FirstOf(first, rest) == IF first.ok THEN first ELSE WithLogs(rest, first.logs)

RECURSIVE TryUnion(_, _)
TryUnion(alternatives, obj) ==
  IF alternatives = <<>> THEN Err("ValidationError")
  ELSE FirstOf(ValidateModel(Schema(alternatives[1]), obj),
               TryUnion(Tail(alternatives), obj))

Decode(obj) == TryUnion(PayloadType, obj)

-----------------------------------------------------------------------------
(* The raw inputs the operations are applied to.                           *)

Absent == [t |-> "absent"]

(* Every mapping that gives each key, in turn, one of its candidate values *)
(* or, for the candidate Absent, leaves the key out.                       *)
RECURSIVE Maps(_, _)
Maps(keys, cands) ==
  IF keys = <<>> THEN {<<>>}
  ELSE {IF c.t = "absent" THEN m
        ELSE [x \in DOMAIN m \cup {keys[1]} |-> IF x = keys[1] THEN c ELSE m[x]] :
          m \in Maps(Tail(keys), cands), c \in cands[keys[1]]}

RawMaps(keys, cands) == {MapV(m) : m \in Maps(keys, cands)}

(* Every list of at most n elements of a set.                              *)
Lists(S, n) == UNION {[1..len -> S] : len \in 0..n}

TimestampRaws ==
  {None, BoolV(TRUE), FloatV(15), FloatV(0 - 15), ListV(<<>>), EmptyMap,
   DatetimeV(0), DatetimeV(1500),
   StrV(<<"1", "2">>), StrV(<<" ", "7", " ">>), StrV(<<"-", "3">>), StrV(<<"x">>),
   StrV(<<>>), StrV(<<"1", ".", "5">>), StrV(<<"1", "_", "0">>), StrV(<<"_", "1">>)}
    \cup {IntV(i) : i \in (0 - 1)..MaxMillis}

GoodUser == MapV([id |-> StrV(<<"u", "1">>)])
BadUser == MapV([name |-> StrV(<<"n">>)])
GoodChannel == MapV([id |-> StrV(<<"c", "1">>), type |-> IntV(0)])
GoodGuild == MapV([id |-> StrV(<<"g", "1">>), name |-> StrV(<<"g">>)])
GoodRole == MapV([id |-> StrV(<<"r", "1">>), name |-> StrV(<<"r">>)])
GoodLogin == MapV([status |-> IntV(1)])
ExtraLogin == MapV([status |-> IntV(1), custom_flag |-> BoolV(TRUE)])
BadLogin == MapV([self_id |-> StrV(<<"b">>)])
GoodMember == MapV([joined_at |-> IntV(2)])

ExtraValues == {Absent, BoolV(TRUE), None, MapV([a |-> IntV(1)])}

ChannelRaws ==
  RawMaps(<<"id", "name", "type", "custom_flag", "x_ext">>,
          [id |-> {Absent, StrV(<<"c", "1">>), IntV(5), ListV(<<>>)},
           name |-> {Absent, None, StrV(<<"n">>)},
           type |-> {Absent, IntV(0), IntV(3), IntV(4), StrV(<<"1">>)},
           custom_flag |-> {Absent, BoolV(TRUE)},
           x_ext |-> ExtraValues])

GuildRaws ==
  RawMaps(<<"id", "name", "avatar", "custom_flag">>,
          [id |-> {Absent, StrV(<<"g", "1">>)},
           name |-> {Absent, None, StrV(<<"g">>)},
           avatar |-> {Absent, None, StrV(<<"a">>), EmptyMap},
           custom_flag |-> ExtraValues])

UserRaws ==
  RawMaps(<<"id", "name", "is_bot", "custom_flag">>,
          [id |-> {Absent, StrV(<<"u", "1">>)},
           name |-> {Absent, None, StrV(<<"n">>)},
           is_bot |-> {Absent, None, BoolV(FALSE), IntV(1), StrV(<<"Y", "e", "s">>),
                       StrV(<<"x">>), IntV(2)},
           custom_flag |-> ExtraValues])

RoleRaws ==
  RawMaps(<<"id", "name", "custom_flag">>,
          [id |-> {Absent, None, StrV(<<"r", "1">>), FloatV(15)},
           name |-> {Absent, StrV(<<"r">>), BoolV(TRUE)},
           custom_flag |-> ExtraValues])

LoginRaws ==
  RawMaps(<<"user", "self_id", "status", "custom_flag">>,
          [user |-> {Absent, None, GoodUser, BadUser, ListV(<<>>)},
           self_id |-> {Absent, StrV(<<"b">>)},
           status |-> {Absent, None, IntV(0), IntV(4), IntV(5), StrV(<<"2">>)},
           custom_flag |-> ExtraValues])

InnerMemberRaws ==
  RawMaps(<<"user", "name", "joined_at", "custom_flag">>,
          [user |-> {Absent, None, GoodUser, BadUser},
           name |-> {Absent, StrV(<<"n">>)},
           joined_at |-> {Absent, None, IntV(2), StrV(<<"1", "2">>), StrV(<<"x">>),
                          ListV(<<>>), DatetimeV(1500)},
           custom_flag |-> ExtraValues])

ContentRaws ==
  {Absent, None, StrV(<<"h", "i">>), StrV(<<>>), ListV(<<>>),
   ListV(<<ElementV("text", <<"h", "i">>)>>), IntV(5), EmptyMap, BoolV(TRUE)}

InnerMessageRaws ==
  RawMaps(<<"id", "content", "user", "created_at", "custom_flag">>,
          [id |-> {Absent, StrV(<<"m", "1">>)},
           content |-> ContentRaws,
           user |-> {Absent, None, GoodUser, BadUser},
           created_at |-> {Absent, None, IntV(2), StrV(<<"x">>)},
           custom_flag |-> {Absent, BoolV(TRUE)}])

GoodMessage == MapV([id |-> StrV(<<"m", "1">>), content |-> StrV(<<"h", "i">>)])
NoContentMessage == MapV([id |-> StrV(<<"m", "1">>)])
NullContentMessage == MapV([id |-> StrV(<<"m", "1">>), content |-> None])
NoContentNoIdMessage == MapV([user |-> GoodUser])

MessageValues ==
  {Absent, None, GoodMessage, NoContentMessage, NullContentMessage,
   NoContentNoIdMessage, ListV(<<>>), IntV(5)}

(* Events: the required fields present, absent and malformed; every        *)
(* optional field absent and null; every optional field well-formed.       *)
EventRaws ==
  RawMaps(<<"id", "type", "platform", "self_id", "timestamp", "message", "custom_flag">>,
          [id |-> {Absent, IntV(7), StrV(<<"7">>), StrV(<<"x">>)},
           type |-> {Absent, StrV(<<"t">>)},
           platform |-> {Absent, StrV(<<"p">>)},
           self_id |-> {Absent, StrV(<<"s">>)},
           timestamp |-> {Absent, None, IntV(2), StrV(<<"x">>)},
           message |-> MessageValues,
           custom_flag |-> {Absent, BoolV(TRUE)}])
    \cup
  RawMaps(<<"id", "type", "platform", "self_id", "timestamp", "channel", "guild",
            "login", "member", "message", "operator", "role", "user">>,
          [id |-> {IntV(7)}, type |-> {StrV(<<"t">>)}, platform |-> {StrV(<<"p">>)},
           self_id |-> {StrV(<<"s">>)}, timestamp |-> {IntV(2)},
           channel |-> {Absent, None, GoodChannel},
           guild |-> {Absent, None, GoodGuild},
           login |-> {Absent, None, ExtraLogin},
           member |-> {Absent, None, GoodMember},
           message |-> {Absent, None, NoContentMessage},
           operator |-> {Absent, None},
           role |-> {Absent, None, GoodRole},
           user |-> {Absent, None}])

(* Envelopes.                                                              *)
OpRaws ==
  {Absent, None, IntV(255), BoolV(TRUE), FloatV(40), FloatV(15),
   StrV(<<"0">>), StrV(<<"3">>), StrV(<<"x">>), ListV(<<>>)}
    \cup {IntV(i) : i \in (0 - 1)..MaxRawOp}

EventBodies ==
  RawMaps(<<"id", "type", "platform", "self_id", "timestamp", "message">>,
          [id |-> {Absent, IntV(7)},
           type |-> {Absent, StrV(<<"t">>)},
           platform |-> {StrV(<<"p">>)},
           self_id |-> {StrV(<<"s">>)},
           timestamp |-> {Absent, None, IntV(2), StrV(<<"x">>)},
           message |-> {Absent, GoodMessage, NoContentMessage, NoContentNoIdMessage}])

ReadyBodies ==
  RawMaps(<<"logins">>,
          [logins |-> {Absent, None, StrV(<<"l">>), EmptyMap}
                        \cup {ListV(l) : l \in Lists({GoodLogin, ExtraLogin, BadLogin,
                                                      IntV(1)}, MaxLogins)}])

IdentifyBodies ==
  RawMaps(<<"token", "sequence">>,
          [token |-> {Absent, None, StrV(<<"t">>), IntV(1), EmptyMap},
           sequence |-> {Absent, None, IntV(3), StrV(<<"4">>), StrV(<<"x">>)}])

JunkBodies ==
  {StrV(<<"j">>), StrV(<<>>), IntV(5), BoolV(TRUE), FloatV(15), ListV(<<>>),
   ListV(<<IntV(1)>>), ListV(<<ListV(<<StrV(<<"i", "d">>), IntV(7)>>)>>),
   ListV(<<ListV(<<IntV(1), IntV(2)>>)>>), StrV(<<"a", "b">>)}

BodyRaws ==
  {Absent, None} \cup JunkBodies \cup EventBodies \cup ReadyBodies \cup IdentifyBodies

EnvelopeRaws == RawMaps(<<"op", "body">>, [op |-> OpRaws, body |-> BodyRaws])

ModelTargets ==
  {"Channel", "Guild", "User", "InnerMember", "Role", "Login", "InnerMessage", "Event"}

ValidatorTargets ==
  {"parse_joined_at", "parse_created_at", "parse_updated_at", "parse_timestamp"}

Inputs(t) ==
  CASE t = "PayloadType" -> EnvelopeRaws
    [] t = "Channel" -> ChannelRaws
    [] t = "Guild" -> GuildRaws
    [] t = "User" -> UserRaws
    [] t = "InnerMember" -> InnerMemberRaws
    [] t = "Role" -> RoleRaws
    [] t = "Login" -> LoginRaws
    [] t = "InnerMessage" -> InnerMessageRaws
    [] t = "Event" -> EventRaws
    [] t \in ValidatorTargets -> TimestampRaws

-----------------------------------------------------------------------------
(* The state machine: one raw input is handed to one operation, which      *)
(* computes its outcome.                                                   *)

Pending == Err("pending")

Init ==
  /\ target \in {"PayloadType"} \cup ModelTargets \cup ValidatorTargets
  /\ raw \in Inputs(target)
  /\ result = Pending
  /\ pc = "ready"

(* parse_obj_as(PayloadType, raw)                                          *)
DecodePayload ==
  /\ pc = "ready"
  /\ target = "PayloadType"
  /\ result' = Decode(raw)
  /\ pc' = "done"
  /\ UNCHANGED <<target, raw>>

(* cls.parse_obj(raw) for an entity class                                  *)
ParseObj(cls) ==
  /\ pc = "ready"
  /\ target = cls
  /\ result' = ValidateModel(Schema(cls), raw)
  /\ pc' = "done"
  /\ UNCHANGED <<target, raw>>

(* a timestamp pre validator applied to a raw field value                  *)
Normalize(name) ==
  /\ pc = "ready"
  /\ target = name
  /\ result' = validator(name, raw)
  /\ pc' = "done"
  /\ UNCHANGED <<target, raw>>

Next ==
  \/ DecodePayload
  \/ \E cls \in ModelTargets : ParseObj(cls)
  \/ \E name \in ValidatorTargets : Normalize(name)

Spec == Init /\ [][Next]_vars

-----------------------------------------------------------------------------
(* Vocabulary of the properties.                                           *)

Decoded == pc = "done" /\ target = "PayloadType"
Parsed(cls) == pc = "done" /\ target = cls

RawHas(k) == k \in DOMAIN raw.m
RawOpIs(n) == RawHas("op") /\ raw.m.op.t = "int" /\ raw.m.op.i = n
NoBody == ~RawHas("body") \/ raw.m.body.t = "none"

(* m with key k set to value x, and m without key k.                       *)
With(m, k, x) == MapV([j \in DOMAIN m.m \cup {k} |-> IF j = k THEN x ELSE m.m[j]])
Without(m, k) == MapV([j \in DOMAIN m.m \ {k} |-> m.m[j]])

(* The generic envelope with opcode n and body b.                          *)
IsEnvelope(r, n, b) ==
  /\ r.ok
  /\ r.val.cls = "Payload"
  /\ r.val.v.op = EnumV("Opcode", n)
  /\ r.val.v.body = b

VariantOf(n) ==
  CASE n = Opcode.EVENT -> "EventPayload"
    [] n = Opcode.PING -> "PingPayload"
    [] n = Opcode.PONG -> "PongPayload"
    [] n = Opcode.IDENTIFY -> "IdentifyPayload"
    [] n = Opcode.READY -> "ReadyPayload"

-----------------------------------------------------------------------------
C2_OpcodeIsDiscriminant ==
  Decoded /\ result.ok =>
    /\ RawHas("op")
    /\ raw.m.op.t = "int"
    /\ raw.m.op.i \in Range(Opcode)
    /\ result.val.cls = VariantOf(raw.m.op.i)

-----------------------------------------------------------------------------
InvalidLoginEntry(body) ==
  /\ body.t = "map"
  /\ "logins" \in DOMAIN body.m
  /\ body.m.logins.t = "list"
  /\ \E i \in 1..Len(body.m.logins.l) : ~ValidateModel(Login, body.m.logins.l[i]).ok

(* The READY bodies C3 says are refused: {} (logins absent), no body, or a *)
(* logins entry that is no valid Login.                                    *)
ReadyRefused ==
  \/ ~RawHas("body")
  \/ raw.m.body = EmptyMap
  \/ InvalidLoginEntry(raw.m.body)

ReadyAccepted ==
  (RawHas("body") /\ raw.m.body = MapV([logins |-> ListV(<<>>)]))
    => (/\ result.ok
        /\ result.val.cls = "ReadyPayload"
        /\ result.val.v.body.v.logins = ListV(<<>>))

-----------------------------------------------------------------------------
EmptyIdentify ==
  /\ result.ok
  /\ result.val.cls = "IdentifyPayload"
  /\ result.val.v.body.cls = "Identify"
  /\ result.val.v.body.v.token = None
  /\ result.val.v.body.v.sequence = None

-----------------------------------------------------------------------------
RawOpIsHeartbeat == RawOpIs(Opcode.PING) \/ RawOpIs(Opcode.PONG)

-----------------------------------------------------------------------------
(* C6: an envelope whose op is an integer outside {0, 1, 2, 3, 4} is       *)
(* refused for every body: no variant and not the generic envelope         *)
(* accepts it.                                                             *)
C6_UnknownOpcodeFails ==
  Decoded /\ RawHas("op") /\ raw.m.op.t = "int" /\ raw.m.op.i \notin Range(Opcode)
    => ~result.ok

C6_Witness ==
  /\ Decoded /\ RawHas("op") /\ raw.m.op = IntV(255)
  /\ RawHas("body") /\ raw.m.body.t = "map"
  /\ ~result.ok

-----------------------------------------------------------------------------
(* The sentinel "Unknown" as the content normalizer hands it on.           *)
Sentinel == parse_content(StrV(Unknown)).val

LacksContent(message) == message.t = "map" /\ "content" \notin DOMAIN message.m
HasContent(message) == message.t = "map" /\ "content" \in DOMAIN message.m

SomeContent == StrV(<<"h", "i">>)

(* A standalone raw Message without content, valid but for that, decodes   *)
(* with the sentinel and one diagnostic; one with content logs nothing.    *)
MessageDegrades ==
  Parsed("InnerMessage") =>
    /\ LacksContent(raw) /\ ValidateModel(InnerMessage, With(raw, "content", SomeContent)).ok
         => result.ok
    /\ LacksContent(raw) /\ result.ok
         => result.val.v.content = Sentinel /\ Len(result.logs) = 1
    /\ HasContent(raw) => result.logs = <<>>

(* The same for the message of an Event.                                   *)
EventMessageDegrades ==
  Parsed("Event") /\ RawHas("message") =>
    /\ (LacksContent(raw.m.message)
          /\ ValidateModel(Event, With(raw, "message",
                                       With(raw.m.message, "content", SomeContent))).ok)
         => result.ok
    /\ LacksContent(raw.m.message) /\ result.ok
         => result.val.v.message.v.content = Sentinel /\ Len(result.logs) = 1
    /\ HasContent(raw.m.message) => result.logs = <<>>

(* The same for the message of the Event body of an envelope decoded to an *)
(* EventPayload.                                                           *)
EnvelopeMessageDegrades ==
  (/\ Decoded /\ result.ok /\ result.val.cls = "EventPayload"
   /\ RawHas("body") /\ raw.m.body.t = "map"
   /\ "message" \in DOMAIN raw.m.body.m)
    => /\ LacksContent(raw.m.body.m.message)
            => /\ result.val.v.body.v.message.v.content = Sentinel
               /\ Len(result.logs) = 1
       /\ HasContent(raw.m.body.m.message) => result.logs = <<>>

(* C7: a raw Message (standalone or the message of an Event) that has no   *)
(* content key and is otherwise valid decodes, with content the sentinel   *)
(* "Unknown" as passed through the content normalizer, and emits exactly   *)
(* one diagnostic; a raw Message that has a content key emits none.        *)
C7_MissingContentDegrades ==
  MessageDegrades /\ EventMessageDegrades /\ EnvelopeMessageDegrades

C7_Witness ==
  /\ Parsed("Event") /\ RawHas("message") /\ LacksContent(raw.m.message)
  /\ result.ok
  /\ result.val.v.message.v.content = Sentinel
  /\ Len(result.logs) = 1

-----------------------------------------------------------------------------
EventRequired == {"id", "type", "platform", "self_id", "timestamp"}
EventOptional == FieldNames(Event) \ EventRequired

EventStrict ==
  Parsed("Event") =>
    /\ \A k \in EventRequired : ~RawHas(k) => ~result.ok
    /\ RawHas("timestamp") /\ raw.m.timestamp.t = "none" => ~result.ok
    /\ \A k \in EventOptional :
         RawHas(k) /\ raw.m[k].t = "none" =>
           ValidateModel(Event, Without(raw, k)) = result

MessageStrict ==
  Parsed("InnerMessage") =>
    /\ ~RawHas("id") => ~result.ok
    /\ RawHas("content") /\ raw.m.content.t = "none" => ~result.ok
    /\ RawHas("content") /\ raw.m.content.t \notin {"str", "list"} => ~result.ok

(* C8: validating a raw map as Event fails whenever id, type, platform,    *)
(* self_id or timestamp is absent, or timestamp is null, no default being  *)
(* substituted; validating a raw Message fails when id is absent, when     *)
(* content is present but null and when content is neither a string nor a  *)
(* list; an absent optional Event field decodes as that field given null.  *)
C8_OnlyContentIsLenient == EventStrict /\ MessageStrict

C8_Witness ==
  /\ Parsed("Event")
  /\ \A k \in EventRequired \ {"timestamp"} : RawHas(k)
  /\ ~RawHas("timestamp")
  /\ RawHas("message") /\ LacksContent(raw.m.message)
  /\ ~result.ok

-----------------------------------------------------------------------------
(* The reference normalizer: whether r is its outcome on the raw value v.  *)
IsNormalized(v, r) ==
  IF v.t = "none" THEN r = Ok(None)
  ELSE IF v.t = "datetime" THEN r = Ok(v)
  ELSE IF PyInt(v).ok
  THEN /\ r = Ok(DatetimeV(PyInt(v).val.i * 1000))
       /\ r.val.us \div 1000 = PyInt(v).val.i
  ELSE ~r.ok

-----------------------------------------------------------------------------
Declared(m, model) ==
  MapV([k \in DOMAIN m.m \cap FieldNames(model) |-> m.m[k]])

(* C10: on every open-schema entity, each key of a raw map that is no      *)
(* declared field is on the decoded value with its raw value, and the      *)
(* unrecognized keys never make the validation fail.                       *)
C10_ExtraKeysKept ==
  pc = "done" /\ target \in ModelTargets =>
    /\ result.ok =>
         \A k \in DOMAIN raw.m \ FieldNames(Schema(target)) :
           k \in DOMAIN result.val.v /\ result.val.v[k] = raw.m[k]
    /\ result.ok = ValidateModel(Schema(target), Declared(raw, Schema(target))).ok

C10_Witness ==
  /\ Parsed("Channel")
  /\ RawHas("custom_flag") /\ raw.m.custom_flag = BoolV(TRUE)
  /\ result.ok
  /\ result.val.v.custom_flag = BoolV(TRUE)

====
